---- MODULE Spec2Model ----
\* A model of package stacktrace: the Stacktrace chain node, its constructors
\* (NewError, NewErrorWithCode, NewMessageWithCode, Propagate, PropagateWithCode,
\* all through create), the inspection functions (GetCode, GetCause, GetMessage,
\* RootCause, ExitCode) and the renderer (Format, formatFull, formatBrief,
\* DefaultFormat).
\*
\* Go strings are sequences of one-character strings.  *Stacktrace values live
\* in `heap` (a pointer is an index into it); an error value is nil, a pointer
\* to a Stacktrace, a foreign error or a fresh errors.New / fmt.Errorf value.
EXTENDS Integers, Sequences, FiniteSets, TLC

\* heap:          the Stacktrace nodes allocated so far, in allocation order
\* given:         for each node, the code argument its constructor was called with
\* DefaultFormat: the package variable
\* ret:           the arguments and the result of the most recent call
VARIABLES heap, given, DefaultFormat, ret

vars == <<heap, given, DefaultFormat, ret>>

\* ---------------------------------------------------------------- bounds
\* The number of Stacktrace nodes a behaviour allocates.
MaxNodes == 3

\* ------------------------------------------------------------- constants
NoCode == 65535

FormatFull == 0

FormatBrief == 1

\* ---------------------------------------------------------- error values
\* The nil error interface value.
Nil == [kind |-> "nil", id |-> 0, text |-> <<>>]

\* err.(*Stacktrace) succeeds exactly on these; id is the pointer.
Ref(p) == [kind |-> "st", id |-> p, text |-> <<>>]

\* An error of some other package; id is its identity, text its Error().
ForeignError(i, t) == [kind |-> "foreign", id |-> i, text |-> t]

\* errors.New(text): a fresh non-chain error.
errorsNew(t) == [kind |-> "errorString", id |-> 0, text |-> t]

IsStacktrace(err) == err.kind = "st"

\* ------------------------------------------------------------ fmt helpers
RECURSIVE Sprintf(_, _)
\* fmt.Sprintf(msg, vals...) for the verb %v with string operands.
Sprintf(msg, vals) ==
    IF msg = <<>> THEN <<>>
    ELSE IF Len(msg) >= 2 /\ msg[1] = "%" /\ msg[2] = "v" /\ vals # <<>>
         THEN Head(vals) \o Sprintf(SubSeq(msg, 3, Len(msg)), Tail(vals))
         ELSE <<msg[1]>> \o Sprintf(Tail(msg), vals)

Digit(d) == CASE d = 0 -> "0" [] d = 1 -> "1" [] d = 2 -> "2" [] d = 3 -> "3"
              [] d = 4 -> "4" [] d = 5 -> "5" [] d = 6 -> "6" [] d = 7 -> "7"
              [] d = 8 -> "8" [] d = 9 -> "9"

RECURSIVE Itoa(_)
\* %v of a non-negative int.
Itoa(n) == IF n < 10 THEN <<Digit(n)>> ELSE Itoa(n \div 10) \o <<Digit(n % 10)>>

\* strings.HasSuffix(s, "\n")
HasSuffixNL(s) == s # <<>> /\ s[Len(s)] = "\n"

\* strings.HasPrefix(s, p)
HasPrefix(s, p) == Len(s) >= Len(p) /\ SubSeq(s, 1, Len(p)) = p

\* strings.LastIndex(s, c) + 1 (0 when c does not occur).
LastIndex1(s, c) ==
    IF \E i \in 1..Len(s) : s[i] = c
    THEN CHOOSE i \in 1..Len(s) : s[i] = c /\ \A j \in (i+1)..Len(s) : s[j] # c
    ELSE 0

\* strings.Index(s, c) + 1 (0 when c does not occur).
Index1(s, c) ==
    IF \E i \in 1..Len(s) : s[i] = c
    THEN CHOOSE i \in 1..Len(s) : s[i] = c /\ \A j \in 1..(i-1) : s[j] # c
    ELSE 0

\* strings.Replace(s, c, "", 1): drop the first occurrence of c.
ReplaceFirst(s, c) ==
    LET i == Index1(s, c)
    IN  IF i = 0 THEN s ELSE SubSeq(s, 1, i - 1) \o SubSeq(s, i + 1, Len(s))

\* -------------------------------------------------------------- call site
\* The build's GOPATH source prefix, which cleanpath.RemoveGoPath strips.
GoPathSrc == <<"g", "/">>

\* cleanpath.RemoveGoPath: the path relative to $GOPATH/src.
RemoveGoPath(path) ==
    IF HasPrefix(path, GoPathSrc)
    THEN SubSeq(path, Len(GoPathSrc) + 1, Len(path))
    ELSE path

\* var CleanPath = cleanpath.RemoveGoPath
CleanPath == "RemoveGoPath"

\* "FuncName" or "Receiver.MethodName" of runtime.Func.Name().
shortFuncName(longName) ==
    LET withoutPath == SubSeq(longName, LastIndex1(longName, "/") + 1, Len(longName))
        withoutPackage == SubSeq(withoutPath, Index1(withoutPath, ".") + 1,
                                 Len(withoutPath))
    IN  ReplaceFirst(ReplaceFirst(ReplaceFirst(withoutPackage, "("), "*"), ")")

\* What runtime.Caller(2) and runtime.FuncForPC(pc) can answer: no caller
\* information, a file and line with no function, or all three.
NoCaller == [ok |-> FALSE, file |-> <<>>, line |-> 0, hasFunc |-> FALSE,
             name |-> <<>>]

FileOnlyCaller == [ok |-> TRUE, file |-> <<"g", "/", "y", ".", "g", "o">>,
                   line |-> 7, hasFunc |-> FALSE, name |-> <<>>]

FullCaller == [ok |-> TRUE, file |-> <<"g", "/", "x", ".", "g", "o">>,
               line |-> 10, hasFunc |-> TRUE,
               name |-> <<"a", "/", "p", ".", "(", "*", "T", ")", ".", "D", "o">>]

\* ------------------------------------------------------------- Stacktrace
\* type Stacktrace struct
Stacktrace(message, cause, code, file, function, line) ==
    [Message |-> message, Cause |-> cause, Code |-> code, File |-> file,
     Function |-> function, Line |-> line]

\* GetCode on the nodes of h.
GetCodeIn(h, err) == IF IsStacktrace(err) THEN h[err.id].Code ELSE NoCode

GetCode(err) == GetCodeIn(heap, err)

GetCause(err) == IF IsStacktrace(err) THEN heap[err.id].Cause ELSE err

\* fmt.Errorf(err.Message): the message is used as the format.
GetMessage(err) ==
    IF IsStacktrace(err) THEN errorsNew(Sprintf(heap[err.id].Message, <<>>)) ELSE err

\* create's allocation: the heap with one more node, and the pointer to it.
Alloc(h, node) == [heap |-> Append(h, node), err |-> Ref(Len(h) + 1)]

\* The rest of create once the code is decided: the node, with the caller's
\* file, line and function when the runtime supplies them.
createNode(h, cause, c, msg, vals, caller) ==
    LET err == Stacktrace(Sprintf(msg, vals), cause, c, <<>>, <<>>, 0)
        file == IF CleanPath # "nil" THEN RemoveGoPath(caller.file) ELSE caller.file
    IN  IF ~caller.ok THEN Alloc(h, err)
        ELSE IF ~caller.hasFunc
             THEN Alloc(h, [err EXCEPT !.File = file, !.Line = caller.line])
             ELSE Alloc(h, [err EXCEPT !.File = file, !.Line = caller.line,
                                       !.Function = shortFuncName(caller.name)])

\* create with the inheritance of the cause's code left out.
createNoInherit(h, cause, code, msg, vals, caller) ==
    createNode(h, cause, code, msg, vals, caller)

\* create with the code written through to the cause as well.
createWriteThrough(h, cause, code, msg, vals, caller) ==
    LET c == IF code = NoCode THEN GetCodeIn(h, cause) ELSE code
        h1 == IF IsStacktrace(cause) THEN [h EXCEPT ![cause.id].Code = c] ELSE h
    IN  createNode(h1, cause, c, msg, vals, caller)

\* create with the cause's code taking precedence over the explicit one.
createCauseFirst(h, cause, code, msg, vals, caller) ==
    LET c == IF GetCodeIn(h, cause) # NoCode THEN GetCodeIn(h, cause) ELSE code
    IN  createNode(h, cause, c, msg, vals, caller)

\* create with the new node as its own cause.
createSelfCause(h, cause, code, msg, vals, caller) ==
    LET c == IF code = NoCode THEN GetCodeIn(h, cause) ELSE code
    IN  createNode(h, Ref(Len(h) + 1), c, msg, vals, caller)

create(h, cause, code, msg, vals, caller) ==
    LET c == IF code = NoCode THEN GetCodeIn(h, cause) ELSE code
    IN  createNode(h, cause, c, msg, vals, caller)

\* ExitCode answering the low byte of the code, as a process exit status would.
ExitCodeLowByte(st) == IF heap[st].Code = NoCode THEN 1 ELSE heap[st].Code % 256

ExitCode(st) == IF heap[st].Code = NoCode THEN 1 ELSE heap[st].Code

\* RootCause answering the message of the node it was given.
RootCauseHeadMessage(err) ==
    IF ~IsStacktrace(err) THEN err ELSE errorsNew(heap[err.id].Message)

RECURSIVE RootCause(_)
RootCause(err) ==
    IF ~IsStacktrace(err) THEN err
    ELSE IF heap[err.id].Cause = Nil THEN errorsNew(heap[err.id].Message)
         ELSE RootCause(heap[err.id].Cause)

\* ---------------------------------------------------------------- renderer
\* cause.Error() of a non-chain error.
ErrorText(err) == err.text

CausedBy == <<"C", "a", "u", "s", "e", "d", " ", "b", "y", ":", " ">>

LocPrefix == <<" ", "-", "-", "-", " ", "a", "t", " ">>

LocSuffix == <<" ", "-", "-", "-">>

\* newline that always breaks the line.
newlineAlways(str) == str \o <<"\n">>

\* The closure newline of formatFull.
newline(str) == IF str # <<>> /\ ~HasSuffixNL(str) THEN str \o <<"\n">> ELSE str

\* fmt.Sprintf(" --- at %v:%v ---", ...) and " --- at %v:%v (%v) ---".
LocationLine(node) ==
    IF node.Function = <<>>
    THEN LocPrefix \o node.File \o <<":">> \o Itoa(node.Line) \o LocSuffix
    ELSE LocPrefix \o node.File \o <<":">> \o Itoa(node.Line) \o <<" ", "(">>
             \o node.Function \o <<")">> \o LocSuffix

\* One iteration of formatFull's loop on node curr with the text so far.
fullStep(curr, str) ==
    LET s1 == str \o curr.Message
        s2 == IF curr.File # <<>> THEN newline(s1) \o LocationLine(curr) ELSE s1
    IN  IF curr.Cause # Nil
        THEN IF ~IsStacktrace(curr.Cause)
             THEN newline(s2) \o CausedBy \o ErrorText(curr.Cause)
             ELSE IF heap[curr.Cause.id].Message # <<>>
                  THEN newline(s2) \o CausedBy
                  ELSE newline(s2)
        ELSE s2

RECURSIVE fullLoop(_, _)
fullLoop(st, str) ==
    LET s == fullStep(heap[st], str)
    IN  IF IsStacktrace(heap[st].Cause) THEN fullLoop(heap[st].Cause.id, s) ELSE s

formatFull(st) == fullLoop(st, <<>>)

\* concat that separates every segment, empty or not.
concatAlways(str, msg) == IF str # <<>> THEN str \o <<":", " ">> \o msg ELSE str \o msg

\* The closure concat of formatBrief.
concat(str, msg) ==
    IF str # <<>> /\ msg # <<>> THEN str \o <<":", " ">> \o msg ELSE str \o msg

RECURSIVE briefLoop(_, _)
briefLoop(st, str) ==
    LET s == concat(str, heap[st].Message)
    IN  IF IsStacktrace(heap[st].Cause) THEN briefLoop(heap[st].Cause.id, s)
        ELSE IF heap[st].Cause # Nil THEN concat(s, ErrorText(heap[st].Cause))
             ELSE s

formatBrief(st) == briefLoop(st, <<>>)

\* The text Format chooses for the flags and the verb, under default mode df.
FormatTextFullOnly(st, flags, c, df) == formatFull(st)

FormatText(st, flags, c, df) ==
    IF "+" \in flags /\ "#" \notin flags /\ c = "s" THEN formatFull(st)
    ELSE IF "#" \in flags /\ "+" \notin flags /\ c = "s" THEN formatBrief(st)
         ELSE IF df = FormatFull THEN formatFull(st) ELSE formatBrief(st)

\* The flags fmt recognizes, in the order Format re-emits them.
FlagOrder == <<"-", "+", "#", " ", "0">>

RECURSIVE keepFlags(_, _)
keepFlags(flags, i) ==
    IF i > Len(FlagOrder) THEN <<>>
    ELSE (IF FlagOrder[i] \in flags THEN <<FlagOrder[i]>> ELSE <<>>)
             \o keepFlags(flags, i + 1)

\* The format string of Format's second pass; width and precision are -1
\* when the request has none.
FormatString(flags, width, precision, c) ==
    <<"%">> \o keepFlags(flags, 1)
        \o (IF width >= 0 THEN Itoa(width) ELSE <<>>)
        \o (IF precision >= 0 THEN <<".">> \o Itoa(precision) ELSE <<>>)
        \o <<c>>

\* ------------------------------------------------------------------ inputs
\* A call site of a constructor: the message, its operands, and what the
\* runtime answers about the caller there.
Call(msg, vals, caller) == [msg |-> msg, vals |-> vals, caller |-> caller]

\* The messages "", "A" and "%v" applied to "C", each at a call site with and
\* without caller information.
Calls == { Call(<<>>, <<>>, NoCaller),
           Call(<<>>, <<>>, FullCaller),
           Call(<<"A">>, <<>>, NoCaller),
           Call(<<"A">>, <<>>, FullCaller),
           Call(<<"%", "v">>, << <<"C">> >>, NoCaller),
           Call(<<"%", "v">>, << <<"C">> >>, FileOnlyCaller) }

\* A formatting request: the flags, width and precision of fmt.State and the verb.
Request(flags, width, precision, c) ==
    [flags |-> flags, width |-> width, precision |-> precision, verb |-> c]

Requests == { Request({}, -1, -1, "s"), Request({}, -1, -1, "v"),
              Request({}, -1, -1, "q"), Request({"+"}, -1, -1, "s"),
              Request({"#"}, -1, -1, "s"), Request({"+", "#"}, -1, -1, "s"),
              Request({"-"}, 8, -1, "s"), Request({"#", "0"}, -1, 3, "s") }

\* The callers' inputs when the claims are about codes and the shape of the
\* chains: every code argument, any node as the cause.
CodeInputs ==
    [calls |-> { Call(<<"A">>, <<>>, FullCaller) },
     codes |-> {5, 7, NoCode},
     foreign |-> {ForeignError(1, <<"E">>)},
     requests |-> { Request({}, -1, -1, "v"), Request({"#"}, -1, -1, "s") },
     anyCause |-> TRUE]

\* The callers' inputs when the claims are about the texts: every message,
\* every answer of the runtime, the most recent error as the cause.
TextInputs ==
    [calls |-> Calls,
     codes |-> {NoCode},
     foreign |-> {ForeignError(1, <<>>), ForeignError(2, <<"E">>)},
     requests |-> Requests,
     anyCause |-> FALSE]

\* The callers' inputs when the claims are about the values of the codes.
ExitInputs ==
    [calls |-> { Call(<<"A">>, <<>>, FullCaller) },
     codes |-> {0, 1, 42, 256, 65534, NoCode},
     foreign |-> {ForeignError(1, <<"E">>)},
     requests |-> { Request({}, -1, -1, "v") },
     anyCause |-> FALSE]

Nodes == { Ref(p) : p \in DOMAIN heap }

\* The most recent node, if any.
Latest == IF heap = <<>> THEN {} ELSE { Ref(Len(heap)) }

\* The errors a caller passes as a cause: before the failure nil or a foreign
\* error, after it nil or a node built for it.
Causes(U) ==
    IF heap = <<>> THEN {Nil} \cup U.foreign
    ELSE {Nil} \cup (IF U.anyCause THEN Nodes ELSE Latest)

\* The errors a caller can inspect.
Errors(U) == {Nil} \cup U.foreign \cup (IF U.anyCause THEN Nodes ELSE Latest)

\* A behaviour follows one failure: a root node is built when none exists.
CanRoot == heap = <<>>

\* -------------------------------------------------------------- operations
\* What the last call was given and what it returned.
NoRet == [op |-> "none", arg |-> Nil, code |-> NoCode, req |-> Request({}, -1, -1, "v"),
          df |-> FormatFull, nodes |-> 0, val |-> Nil, num |-> 0, text |-> <<>>,
          format |-> <<>>]

Init ==
    /\ heap = <<>>
    /\ given = <<>>
    /\ DefaultFormat = FormatFull
    /\ ret = NoRet

\* A constructor call that went through create (or allocated itself): r is
\* the allocation, g the code argument it was given.
Constructed(op, cause, g, r) ==
    /\ heap' = r.heap
    /\ given' = Append(given, g)
    /\ ret' = [NoRet EXCEPT !.op = op, !.arg = cause, !.code = g,
                            !.nodes = Len(heap), !.val = r.err]
    /\ UNCHANGED DefaultFormat

\* A call that returned nil without allocating.
ReturnedNil(op, cause, g) ==
    /\ ret' = [NoRet EXCEPT !.op = op, !.arg = cause, !.code = g,
                            !.nodes = Len(heap), !.val = Nil]
    /\ UNCHANGED <<heap, given, DefaultFormat>>

NewError(U) ==
    /\ Len(heap) < MaxNodes
    /\ CanRoot
    /\ \E m \in U.calls :
          Constructed("NewError", Nil, NoCode,
                      create(heap, Nil, NoCode, m.msg, m.vals, m.caller))

NewErrorWithCode(U) ==
    /\ Len(heap) < MaxNodes
    /\ CanRoot
    /\ \E code \in U.codes, m \in U.calls :
          Constructed("NewErrorWithCode", Nil, code,
                      create(heap, Nil, code, m.msg, m.vals, m.caller))

NewMessageWithCode(U) ==
    /\ Len(heap) < MaxNodes
    /\ CanRoot
    /\ \E code \in U.codes, m \in U.calls :
          Constructed("NewMessageWithCode", Nil, code,
                      Alloc(heap, Stacktrace(Sprintf(m.msg, m.vals), Nil, code,
                                             <<>>, <<>>, 0)))

\* Propagate without the check of the cause.
PropagateUnchecked(U) ==
    /\ Len(heap) < MaxNodes
    /\ \E cause \in Causes(U), m \in U.calls :
          Constructed("Propagate", cause, NoCode,
                      create(heap, cause, NoCode, m.msg, m.vals, m.caller))

Propagate(U) ==
    \E cause \in Causes(U), m \in U.calls :
       IF cause = Nil
       THEN ReturnedNil("Propagate", cause, NoCode)
       ELSE /\ Len(heap) < MaxNodes
            /\ Constructed("Propagate", cause, NoCode,
                           create(heap, cause, NoCode, m.msg, m.vals, m.caller))

PropagateWithCode(U) ==
    \E cause \in Causes(U), code \in U.codes, m \in U.calls :
       IF cause = Nil
       THEN ReturnedNil("PropagateWithCode", cause, code)
       ELSE /\ Len(heap) < MaxNodes
            /\ Constructed("PropagateWithCode", cause, code,
                           create(heap, cause, code, m.msg, m.vals, m.caller))

CallGetCode(U) ==
    /\ \E err \in Errors(U) :
          ret' = [NoRet EXCEPT !.op = "GetCode", !.arg = err, !.num = GetCode(err)]
    /\ UNCHANGED <<heap, given, DefaultFormat>>

CallGetCause(U) ==
    /\ \E err \in Errors(U) :
          ret' = [NoRet EXCEPT !.op = "GetCause", !.arg = err, !.val = GetCause(err)]
    /\ UNCHANGED <<heap, given, DefaultFormat>>

CallGetMessage(U) ==
    /\ \E err \in Errors(U) :
          ret' = [NoRet EXCEPT !.op = "GetMessage", !.arg = err,
                               !.val = GetMessage(err)]
    /\ UNCHANGED <<heap, given, DefaultFormat>>

CallRootCause(U) ==
    /\ \E err \in Errors(U) :
          ret' = [NoRet EXCEPT !.op = "RootCause", !.arg = err,
                               !.val = RootCause(err)]
    /\ UNCHANGED <<heap, given, DefaultFormat>>

CallExitCode(U) ==
    /\ \E err \in Errors(U) :
          /\ IsStacktrace(err)
          /\ ret' = [NoRet EXCEPT !.op = "ExitCode", !.arg = err,
                                  !.num = ExitCode(err.id)]
    /\ UNCHANGED <<heap, given, DefaultFormat>>

\* st.Format(f, c): the text of the chain, handed with the rebuilt format
\* string to fmt.Fprintf.
Format(U) ==
    /\ \E err \in Errors(U), r \in U.requests :
          /\ IsStacktrace(err)
          /\ ret' = [NoRet EXCEPT
                       !.op = "Format", !.arg = err, !.req = r,
                       !.df = DefaultFormat,
                       !.text = FormatText(err.id, r.flags, r.verb, DefaultFormat),
                       !.format = FormatString(r.flags, r.width, r.precision,
                                               r.verb)]
    /\ UNCHANGED <<heap, given, DefaultFormat>>

\* st.Error(): fmt.Sprint(st), which calls Format with no flags and verb v.
Error(U) ==
    /\ \E err \in Errors(U) :
          /\ IsStacktrace(err)
          /\ ret' = [NoRet EXCEPT
                       !.op = "Error", !.arg = err, !.df = DefaultFormat,
                       !.text = FormatText(err.id, {}, "v", DefaultFormat),
                       !.format = FormatString({}, -1, -1, "v")]
    /\ UNCHANGED <<heap, given, DefaultFormat>>

\* An assignment to the package variable DefaultFormat.
SetDefaultFormat ==
    /\ \E f \in {FormatFull, FormatBrief} : DefaultFormat' = f
    /\ UNCHANGED <<heap, given, ret>>

Next ==
    \/ NewError(CodeInputs)
    \/ NewErrorWithCode(CodeInputs)
    \/ NewMessageWithCode(CodeInputs)
    \/ Propagate(CodeInputs)
    \/ PropagateWithCode(CodeInputs)
    \/ CallGetCode(CodeInputs)
    \/ CallGetCause(CodeInputs)
    \/ CallGetMessage(CodeInputs)
    \/ CallRootCause(CodeInputs)
    \/ CallExitCode(CodeInputs)
    \/ Format(CodeInputs)
    \/ Error(CodeInputs)

Spec == Init /\ [][Next]_vars

NextText ==
    \/ NewError(TextInputs)
    \/ NewErrorWithCode(TextInputs)
    \/ NewMessageWithCode(TextInputs)
    \/ Propagate(TextInputs)
    \/ PropagateWithCode(TextInputs)
    \/ CallRootCause(TextInputs)
    \/ Format(TextInputs)
    \/ Error(TextInputs)
    \/ SetDefaultFormat

SpecText == Init /\ [][NextText]_vars

NextExit ==
    \/ NewError(ExitInputs)
    \/ NewErrorWithCode(ExitInputs)
    \/ NewMessageWithCode(ExitInputs)
    \/ Propagate(ExitInputs)
    \/ PropagateWithCode(ExitInputs)
    \/ CallGetCode(ExitInputs)
    \/ CallExitCode(ExitInputs)

SpecExit == Init /\ [][NextExit]_vars

\* ------------------------------------------------------- claims on codes
\* The pointers from err to the root of its chain, head first.
RECURSIVE ChainOf(_)
ChainOf(err) ==
    IF ~IsStacktrace(err) THEN <<>>
    ELSE <<err.id>> \o ChainOf(heap[err.id].Cause)

\* The code argument of the first node from err that was given a code other
\* than NoCode; NoCode if there is none.
FirstExplicitCode(err) ==
    LET c == ChainOf(err)
        with == { i \in 1..Len(c) : given[c[i]] # NoCode }
    IN  IF with = {} THEN NoCode
        ELSE given[c[CHOOSE i \in with : \A j \in with : i <= j]]

\* C1: GetCode of any error is the code given to the first node of its chain,
\* from the head, that was given one, and NoCode if no node was (so NoCode
\* for nil and for a foreign error); a GetCode call returns that.
C1_CodeIsFirstExplicit ==
    /\ \A err \in Errors(CodeInputs) : GetCode(err) = FirstExplicitCode(err)
    /\ ret.op = "GetCode" => ret.num = FirstExplicitCode(ret.arg)

\* A chain of three: the head given no code, its cause given 7, the root
\* given 5; GetCode of the head returned 7.
C1_Witness ==
    /\ ret.op = "GetCode" /\ IsStacktrace(ret.arg) /\ ret.num = 7
    /\ LET c == ChainOf(ret.arg)
       IN  /\ Len(c) = 3
           /\ given[c[1]] = NoCode /\ given[c[2]] = 7 /\ given[c[3]] = 5

\* C2: Propagate and PropagateWithCode return nil for a nil cause, whatever
\* the message and the code, and allocate nothing; for any other cause they
\* return a new node whose cause is that error.
C2_PropagateNilSafe ==
    ret.op \in {"Propagate", "PropagateWithCode"} =>
        IF ret.arg = Nil
        THEN ret.val = Nil /\ Len(heap) = ret.nodes
        ELSE /\ IsStacktrace(ret.val)
             /\ Len(heap) = ret.nodes + 1
             /\ ret.val.id = Len(heap)
             /\ heap[ret.val.id].Cause = ret.arg

\* PropagateWithCode(nil, 7, msg) returned nil while two nodes exist, and no
\* third was allocated.
C2_Witness ==
    /\ ret.op = "PropagateWithCode" /\ ret.arg = Nil /\ ret.code = 7
    /\ ret.val = Nil /\ Len(heap) = 2

\* C3 as stated: for any non-nil cause and ANY code c, the node
\* PropagateWithCode returns has code c.
C3_AnyCodeOverrides ==
    (ret.op = "PropagateWithCode" /\ ret.arg # Nil) => GetCode(ret.val) = ret.code

\* C3 amended: for any non-nil cause, the node PropagateWithCode returns has
\* code c when c is not NoCode, and the code of the cause when c is NoCode.
C3_ExplicitCodeOverrides ==
    (ret.op = "PropagateWithCode" /\ ret.arg # Nil) =>
        GetCode(ret.val) = IF ret.code # NoCode THEN ret.code ELSE GetCode(ret.arg)

\* PropagateWithCode(e1, 7, msg) on a node e1 of code 5 returned a node of code 7.
C3_Witness ==
    /\ ret.op = "PropagateWithCode" /\ IsStacktrace(ret.arg) /\ ret.code = 7
    /\ GetCode(ret.arg) = 5 /\ GetCode(ret.val) = 7

\* C7: no operation changes a node that exists: every step leaves the
\* message, cause, code and location of every node as they were.
C7_NodesImmutable ==
    [][\A p \in DOMAIN heap : p \in DOMAIN heap' /\ heap'[p] = heap[p]]_vars

\* PropagateWithCode(e1, 7, msg) on a node e1 of code NoCode returned a node
\* of code 7, and e1 still has NoCode.
C7_Witness ==
    /\ ret.op = "PropagateWithCode" /\ IsStacktrace(ret.arg) /\ ret.code = 7
    /\ given[ret.arg.id] = NoCode /\ GetCode(ret.arg) = NoCode
    /\ GetCode(ret.val) = 7

\* Whether following the causes from err ends within fuel nodes.
RECURSIVE WalkEnds(_, _)
WalkEnds(err, fuel) ==
    IF ~IsStacktrace(err) THEN TRUE
    ELSE IF fuel = 0 \/ err.id \notin DOMAIN heap THEN FALSE
         ELSE WalkEnds(heap[err.id].Cause, fuel - 1)

\* C8: the cause relation is acyclic: from every node, following the causes
\* reaches nil or a foreign error without visiting more nodes than exist.
C8_CauseAcyclic == \A p \in DOMAIN heap : WalkEnds(Ref(p), Len(heap))

\* Two nodes share a cause, and RootCause walked a chain of two of them.
C8_Witness ==
    /\ Len(heap) = 3
    /\ heap[2].Cause = Ref(1) /\ heap[3].Cause = Ref(1)
    /\ ret.op = "RootCause" /\ ret.arg = Ref(3)

\* C9: ExitCode is 1 for a node whose code, given or inherited, is NoCode, and
\* the value of the code otherwise.
C9_ExitCodeMapping ==
    ret.op = "ExitCode" =>
        LET code == FirstExplicitCode(ret.arg)
        IN  /\ code \in 0..65535
            /\ ret.num = IF code = NoCode THEN 1 ELSE code

\* ExitCode returned 65534 for a node that inherited it.
C9_Witness ==
    /\ ret.op = "ExitCode" /\ ret.num = 65534
    /\ given[ret.arg.id] = NoCode

\* ------------------------------------------------------ claims on texts
\* Whether the last call rendered its node in brief mode by the request.
BriefRequested ==
    /\ ret.op = "Format"
    /\ "#" \in ret.req.flags /\ "+" \notin ret.req.flags /\ ret.req.verb = "s"

\* Whether the last call rendered its node in full mode by the request.
FullRequested ==
    /\ ret.op = "Format"
    /\ "+" \in ret.req.flags /\ "#" \notin ret.req.flags /\ ret.req.verb = "s"

\* Whether the last call rendered its node and carried neither directive.
Undirected ==
    /\ ret.op \in {"Format", "Error"}
    /\ "+" \notin ret.req.flags /\ "#" \notin ret.req.flags

\* The error the chain of err ends in: nil or a foreign error.
Terminal(err) ==
    LET c == ChainOf(err)
    IN  IF c = <<>> THEN err ELSE heap[c[Len(c)]].Cause

\* C4: RootCause of an error that is no chain node is that error; RootCause of
\* a chain that ends in a foreign error is that very error; RootCause of a
\* chain of nodes alone is a plain error whose text is the root's message.
C4_RootCauseIsTerminal ==
    ret.op = "RootCause" =>
        LET c == ChainOf(ret.arg)
        IN  IF Terminal(ret.arg) # Nil \/ c = <<>>
            THEN ret.val = Terminal(ret.arg)
            ELSE /\ ~IsStacktrace(ret.val)
                 /\ ret.val.kind = "errorString"
                 /\ ret.val.text = heap[c[Len(c)]].Message

\* RootCause of a chain of three nodes over the foreign error "E" returned
\* that error.
C4_Witness ==
    /\ ret.op = "RootCause" /\ Len(ChainOf(ret.arg)) = 3
    /\ ret.val = ForeignError(2, <<"E">>)

\* The messages of the chain of err, head first, then the text of the
\* foreign error it ends in, if any.
Segments(err) ==
    LET c == ChainOf(err)
    IN  [i \in 1..Len(c) |-> heap[c[i]].Message]
            \o (IF Terminal(err) # Nil THEN <<ErrorText(Terminal(err))>> ELSE <<>>)

NonEmpty(seg) == seg # <<>>

RECURSIVE Join(_, _)
Join(segs, sep) ==
    IF segs = <<>> THEN <<>>
    ELSE IF Len(segs) = 1 THEN segs[1]
         ELSE segs[1] \o sep \o Join(Tail(segs), sep)

\* The positions at which pat occurs in text.
Occurrences(text, pat) ==
    { i \in 1..(Len(text) - Len(pat) + 1) : SubSeq(text, i, i + Len(pat) - 1) = pat }

\* C5: the brief rendering of a chain is its non-empty segments (the messages
\* head to root, then the foreign error's text) joined by ": "; no location
\* appears in it.
C5_BriefIsJoin ==
    /\ \A err \in Latest :
          /\ formatBrief(err.id) = Join(SelectSeq(Segments(err), NonEmpty), <<":", " ">>)
          /\ Occurrences(formatBrief(err.id), LocPrefix) = {}
    /\ BriefRequested =>
          ret.text = Join(SelectSeq(Segments(ret.arg), NonEmpty), <<":", " ">>)

\* The messages "A", "", "C" rendered by "%#s" as "A: C".
C5_Witness ==
    /\ BriefRequested
    /\ Segments(ret.arg) = << <<"A">>, <<>>, <<"C">> >>
    /\ ret.text = <<"A", ":", " ", "C">>

\* C6: whatever DefaultFormat holds, "%+s" renders in full mode and "%#s" in
\* brief mode; a request with neither directive, and Error(), render in the
\* mode DefaultFormat held at the call.
C6_ModeSelection ==
    /\ FullRequested => ret.text = formatFull(ret.arg.id)
    /\ BriefRequested => ret.text = formatBrief(ret.arg.id)
    /\ Undirected =>
          /\ ret.df = FormatFull => ret.text = formatFull(ret.arg.id)
          /\ ret.df = FormatBrief => ret.text = formatBrief(ret.arg.id)

\* Under DefaultFormat = FormatBrief, "%q" rendered brief text that differs
\* from the full text of the node.
C6_Witness ==
    /\ ret.op = "Format" /\ Undirected /\ ret.req.verb = "q"
    /\ ret.df = FormatBrief
    /\ ret.text = formatBrief(ret.arg.id)
    /\ ret.text # formatFull(ret.arg.id)

\* Whether position i of text begins a line.
AtLineStart(text, i) == i = 1 \/ text[i - 1] = "\n"

\* Whether the occurrence of pat at position i of text ends a line.
AtLineEnd(text, i, pat) ==
    i + Len(pat) - 1 = Len(text) \/ text[i + Len(pat)] = "\n"

\* The location line of a node, as the documentation gives it.
ExpectedLocation(node) ==
    <<" ", "-", "-", "-", " ", "a", "t", " ">> \o node.File \o <<":">>
        \o Itoa(node.Line)
        \o (IF node.Function = <<>> THEN <<>>
            ELSE <<" ", "(">> \o node.Function \o <<")">>)
        \o <<" ", "-", "-", "-">>

\* The nodes of a chain after which a "Caused by: " marker is due.
MarkedNodes(c) ==
    { i \in 1..Len(c) :
        LET cause == heap[c[i]].Cause
        IN  \/ cause.kind = "foreign"
            \/ IsStacktrace(cause) /\ heap[cause.id].Message # <<>> }

\* What C10 says of the full rendering text of the chain of err.
FullWellFormed(text, err) ==
    LET c == ChainOf(err)
    IN  /\ \A i \in 1..(Len(text) - 1) : ~(text[i] = "\n" /\ text[i + 1] = "\n")
        /\ \A i \in Occurrences(text, CausedBy) : AtLineStart(text, i)
        /\ \A i \in Occurrences(text, LocPrefix) : AtLineStart(text, i)
        /\ Cardinality(Occurrences(text, CausedBy)) = Cardinality(MarkedNodes(c))
        /\ Cardinality(Occurrences(text, LocPrefix))
               = Cardinality({ i \in 1..Len(c) : heap[c[i]].File # <<>> })
        /\ \A i \in 1..Len(c) :
              heap[c[i]].File # <<>> =>
                 \E k \in Occurrences(text, ExpectedLocation(heap[c[i]])) :
                    /\ AtLineStart(text, k)
                    /\ AtLineEnd(text, k, ExpectedLocation(heap[c[i]]))
        /\ Terminal(err).kind = "foreign" =>
              \E k \in Occurrences(text, CausedBy \o ErrorText(Terminal(err))) :
                 k + Len(CausedBy \o ErrorText(Terminal(err))) - 1 = Len(text)

\* C10: the full rendering of a chain whose messages and foreign text hold no
\* newline has no empty line; every location line and every "Caused by: "
\* marker begins a line; a marker is emitted exactly for the nodes whose cause
\* is a foreign error (its text following inline) or a node with a non-empty
\* message.
C10_FullNoBlankLines ==
    /\ \A err \in Latest :
          (\A i \in 1..Len(Segments(err)) : Occurrences(Segments(err)[i], <<"\n">>) = {})
             => FullWellFormed(formatFull(err.id), err)
    /\ FullRequested => FullWellFormed(ret.text, ret.arg)

\* "%+s" rendered the chain "A" (x.go:10, T.Do), "" (x.go:10, T.Do), "C"
\* (y.go:7, no function) over the foreign error "E" as
\*   A
\*    --- at x.go:10 (T.Do) ---
\*    --- at x.go:10 (T.Do) ---
\*   Caused by: C
\*    --- at y.go:7 ---
\*   Caused by: E
C10_Witness ==
    /\ FullRequested
    /\ Len(ChainOf(ret.arg)) = 3
    /\ heap[ChainOf(ret.arg)[2]].Message = <<>>
    /\ Terminal(ret.arg) = ForeignError(2, <<"E">>)
    /\ ret.text =
       <<"A", "\n", " ", "-", "-", "-", " ", "a", "t", " ", "x", ".", "g",
         "o", ":", "1", "0", " ", "(", "T", ".", "D", "o", ")", " ", "-",
         "-", "-", "\n", " ", "-", "-", "-", " ", "a", "t", " ", "x", ".",
         "g", "o", ":", "1", "0", " ", "(", "T", ".", "D", "o", ")", " ",
         "-", "-", "-", "\n", "C", "a", "u", "s", "e", "d", " ", "b", "y",
         ":", " ", "C", "\n", " ", "-", "-", "-", " ", "a", "t", " ", "y",
         ".", "g", "o", ":", "7", " ", "-", "-", "-", "\n", "C", "a", "u",
         "s", "e", "d", " ", "b", "y", ":", " ", "E">>

====
